---------------------------- MODULE Spec2Model ----------------------------
(***************************************************************************)
(* Chapter 2 ray tracer (ComputerGraphicsFromScratch.cpp): the scene       *)
(* globals, the ray/sphere solver, the shading evaluator, the nearest-hit  *)
(* scan and the frame renderer, with the main loop that calls it.          *)
(*                                                                         *)
(* Numbers.  The program computes in IEEE-754 binary32.  The model keeps   *)
(* the structure of that format (sign, mantissa, exponent, +-infinity,     *)
(* NaN, rounding after every operation, overflow to infinity, underflow    *)
(* to zero) with a mantissa of MantBits bits instead of 24 and exponents   *)
(* in ExpMin..ExpMax, so that every intermediate fits TLC's integers.      *)
(* A finite value is m * 2^e with 2^(MantBits-1) <= |m| < 2^MantBits, or   *)
(* m = 0 (one zero, no subnormals).                                        *)
(*                                                                         *)
(* Canvas.  CANVAS_WIDTH and CANVAS_HEIGHT are 800 in the source; the      *)
(* model keeps the canvas square and even, 2 * CanvasHalf pixels wide.     *)
(***************************************************************************)
EXTENDS Integers, Sequences, FiniteSets, TLC

\* ------------------------------------------------------------ bounds
MantBits == 14
ExpMax == 30
CanvasHalf == 6
MaxFrames == 2

\* ------------------------------------------------- call by value
\* A C local or argument is evaluated once, before its uses: F applied to
\* the value of v.
Let1(v, F(_)) == CHOOSE r \in { F(w) : w \in {v} } : TRUE
Let2(v1, v2, F(_, _)) == CHOOSE r \in { F(w1, w2) : w1 \in {v1}, w2 \in {v2} } : TRUE
Let3(v1, v2, v3, F(_, _, _)) ==
    CHOOSE r \in { F(w1, w2, w3) : w1 \in {v1}, w2 \in {v2}, w3 \in {v3} } : TRUE

\* ------------------------------------------------- float arithmetic
ExpMin == 0 - (ExpMax + MantBits)

Fin(m, e) == [k |-> "fin", m |-> m, e |-> e]
Zero == Fin(0, 0)
PosInf == [k |-> "inf", m |-> 1, e |-> 0]
NegInf == [k |-> "inf", m |-> -1, e |-> 0]
NaN == [k |-> "nan", m |-> 0, e |-> 0]
\* INFINITY of <math.h>, the "no intersection" sentinel
INFINITY == PosInf

Sgn(n) == IF n < 0 THEN -1 ELSE 1
Abs(n) == IF n < 0 THEN 0 - n ELSE n
Inf(s) == IF s < 0 THEN NegInf ELSE PosInf

RECURSIVE BitLen(_)
BitLen(n) == IF n = 0 THEN 0 ELSE 1 + BitLen(n \div 2)

RECURSIVE ISqrt(_)
ISqrt(n) ==
    IF n < 2 THEN n
    ELSE Let1(2 * ISqrt(n \div 4), LAMBDA r :
             IF (r + 1) * (r + 1) <= n THEN r + 1 ELSE r)

\* The value s * n * 2^e rounded to the format (nearest, ties away from zero).
Round(s, n, e) ==
    IF n = 0 THEN Zero
    ELSE Let1(BitLen(n) - MantBits, LAMBDA sh :
         Let1(IF sh > 0 THEN (n + 2^(sh - 1)) \div 2^sh ELSE n * 2^(0 - sh), LAMBDA q :
             LET carry == q = 2^MantBits
                 m  == IF carry THEN 2^(MantBits - 1) ELSE q
                 ee == IF carry THEN e + sh + 1 ELSE e + sh
             IN  IF ee > ExpMax THEN Inf(s)
                 ELSE IF ee < ExpMin THEN Zero
                 ELSE Fin(s * m, ee)))

FromInt(n) == Round(Sgn(n), Abs(n), 0)

IsFinite(a) == a.k = "fin"

FNeg(x) == Let1(x, LAMBDA a :
    IF a.k = "nan" THEN a ELSE [a EXCEPT !.m = 0 - a.m])

FMul(x, y) == Let2(x, y, LAMBDA a, b :
    IF a.k = "nan" \/ b.k = "nan" THEN NaN
    ELSE IF a.k = "inf" \/ b.k = "inf"
         THEN IF a.m = 0 \/ b.m = 0 THEN NaN ELSE Inf(Sgn(a.m) * Sgn(b.m))
    ELSE Round(Sgn(a.m) * Sgn(b.m), Abs(a.m) * Abs(b.m), a.e + b.e))

FDiv(x, y) == Let2(x, y, LAMBDA a, b :
    IF a.k = "nan" \/ b.k = "nan" THEN NaN
    ELSE IF a.k = "inf"
         THEN IF b.k = "inf" THEN NaN ELSE Inf(Sgn(a.m) * Sgn(b.m))
    ELSE IF b.k = "inf" THEN Zero
    ELSE IF b.m = 0 THEN (IF a.m = 0 THEN NaN ELSE Inf(Sgn(a.m)))
    ELSE Round(Sgn(a.m) * Sgn(b.m),
               (Abs(a.m) * 2^MantBits) \div Abs(b.m),
               a.e - b.e - MantBits))

FAdd(x, y) == Let2(x, y, LAMBDA a, b :
    IF a.k = "nan" \/ b.k = "nan" THEN NaN
    ELSE IF a.k = "inf" THEN (IF b.k = "inf" /\ b.m # a.m THEN NaN ELSE a)
    ELSE IF b.k = "inf" THEN b
    ELSE IF a.m = 0 THEN b
    ELSE IF b.m = 0 THEN a
    ELSE LET hi == IF a.e >= b.e THEN a ELSE b
             lo == IF a.e >= b.e THEN b ELSE a
             d  == hi.e - lo.e
         IN  IF d > MantBits THEN hi
             ELSE Let1(hi.m * 2^d + lo.m, LAMBDA s : Round(Sgn(s), Abs(s), lo.e)))

FSub(x, y) == FAdd(x, FNeg(y))

\* sqrtf
FSqrt(x) == Let1(x, LAMBDA a :
    IF a.k = "nan" THEN NaN
    ELSE IF a.k = "inf" THEN (IF a.m > 0 THEN PosInf ELSE NaN)
    ELSE IF a.m < 0 THEN NaN
    ELSE IF a.m = 0 THEN Zero
    ELSE LET s == IF (a.e - MantBits) % 2 = 0 THEN MantBits ELSE MantBits - 1
         IN  Round(1, ISqrt(a.m * 2^s), (a.e - s) \div 2))

\* a == b, a < b, ... of C on floats: every comparison with a NaN is false
\* except !=.
FEq(x, y) == Let2(x, y, LAMBDA a, b : a.k # "nan" /\ b.k # "nan" /\ a = b)
FNe(x, y) == ~FEq(x, y)
FLt(x, y) == Let2(x, y, LAMBDA a, b :
    IF a.k = "nan" \/ b.k = "nan" THEN FALSE
    ELSE IF a.k = "inf" THEN a.m < 0 /\ b # NegInf
    ELSE IF b.k = "inf" THEN b.m > 0
    ELSE IF a.m = 0 THEN b.m > 0
    ELSE IF b.m = 0 THEN a.m < 0
    ELSE IF a.m < 0 /\ b.m > 0 THEN TRUE
    ELSE IF a.m > 0 /\ b.m < 0 THEN FALSE
    ELSE IF a.m > 0 THEN a.e < b.e \/ (a.e = b.e /\ a.m < b.m)
    ELSE a.e > b.e \/ (a.e = b.e /\ a.m < b.m))
FLe(x, y) == Let2(x, y, LAMBDA a, b : FLt(a, b) \/ FEq(a, b))
FGt(x, y) == FLt(y, x)
FGe(x, y) == FLe(y, x)

\* ------------------------------------------------ raymath / raylib
Vec(x, y, z) == [x |-> x, y |-> y, z |-> z]
VecI(x, y, z) == Vec(FromInt(x), FromInt(y), FromInt(z))

Vector3Zero == Vec(Zero, Zero, Zero)
Vector3Add(a, b) == Let2(a, b, LAMBDA v1, v2 :
    Vec(FAdd(v1.x, v2.x), FAdd(v1.y, v2.y), FAdd(v1.z, v2.z)))
Vector3Subtract(a, b) == Let2(a, b, LAMBDA v1, v2 :
    Vec(FSub(v1.x, v2.x), FSub(v1.y, v2.y), FSub(v1.z, v2.z)))
Vector3Scale(a, b) == Let2(a, b, LAMBDA v, s :
    Vec(FMul(v.x, s), FMul(v.y, s), FMul(v.z, s)))
Vector3DotProduct(a, b) == Let2(a, b, LAMBDA v1, v2 :
    FAdd(FAdd(FMul(v1.x, v2.x), FMul(v1.y, v2.y)), FMul(v1.z, v2.z)))
Vector3Length(a) == Let1(a, LAMBDA v :
    FSqrt(FAdd(FAdd(FMul(v.x, v.x), FMul(v.y, v.y)), FMul(v.z, v.z))))

\* raymath Clamp: (value < min) ? min : value, then capped by max
Clamp(value, min, max) ==
    Let1(IF FLt(value, min) THEN min ELSE value, LAMBDA result :
        IF FGt(result, max) THEN max ELSE result)

Col(r, g, b) == [r |-> r, g |-> g, b |-> b, a |-> 255]
RED == Col(230, 41, 55)
BLUE == Col(0, 121, 241)
GREEN == Col(0, 228, 48)
YELLOW == Col(253, 249, 0)
WHITE == Col(255, 255, 255)
BLACK == Col(0, 0, 0)

\* ------------------------------------------------------ the scene
CAMERA_ORIGIN_DISTANCE == FromInt(1)
VIEWPORT_WIDTH == FromInt(1)
VIEWPORT_HEIGHT == FromInt(1)
CANVAS_WIDTH == 2 * CanvasHalf
CANVAS_HEIGHT == 2 * CanvasHalf

CAMERA_ORIGIN == VecI(0, 0, 0)

Sphere(center, radius, color) ==
    [center |-> center, radius |-> radius, color |-> color]

\* Sphere objects[]
SceneObjects ==
    << Sphere(VecI(0, -1, 3), FromInt(1), RED),
       Sphere(VecI(2, 0, 4), FromInt(1), BLUE),
       Sphere(VecI(-2, 0, 4), FromInt(1), GREEN),
       Sphere(VecI(0, -5001, 0), FromInt(5000), YELLOW) >>

Light(position, direction, intensity, type) ==
    [position |-> position, direction |-> direction,
     intensity |-> intensity, type |-> type]

\* a decimal literal n/10
Tenths(n) == FDiv(FromInt(n), FromInt(10))

\* Light lights[]
SceneLights ==
    << Light(VecI(2, 1, 0), VecI(0, -1, 3), Tenths(6), "POINT"),
       Light(VecI(0, 0, 0), VecI(1, 4, 4), Tenths(2), "DIRECTIONAL"),
       Light(VecI(0, 0, 0), VecI(0, 0, 0), Tenths(2), "AMBIENT") >>

MkRay(position, direction) == [position |-> position, direction |-> direction]

\* ------------------------------------------------ colour helpers
\* (unsigned char)f: truncation toward zero when the truncated value is a
\* byte; undefined behaviour otherwise (any byte may result).
UCharCast(x) == Let1(x, LAMBDA f :
    IF f.k = "fin" /\ FGt(f, FromInt(-1)) /\ FLt(f, FromInt(256))
    THEN IF f.m <= 0 THEN {0}
         ELSE IF f.e >= 0 THEN {f.m * 2^f.e}
         ELSE IF 0 - f.e >= MantBits THEN {0}
         ELSE {f.m \div 2^(0 - f.e)}
    ELSE 0..255)

\* The channel ColorMultiply computes, before the cast.
Channel(c, factor) == Clamp(FMul(FromInt(c), factor), FromInt(0), FromInt(255))

\* Fault variant of ColorMultiply: alpha is scaled like the other channels.
ColorMultiply_AlphaScaled(c, f) == Let2(c, f, LAMBDA col, factor :
    { [r |-> rr, g |-> gg, b |-> bb, a |-> aa] :
        rr \in UCharCast(Channel(col.r, factor)),
        gg \in UCharCast(Channel(col.g, factor)),
        bb \in UCharCast(Channel(col.b, factor)),
        aa \in UCharCast(Channel(col.a, factor)) })

\* The colours ColorMultiply can return (one, unless a cast is undefined).
ColorMultiply(c, f) == Let2(c, f, LAMBDA col, factor :
    { [r |-> rr, g |-> gg, b |-> bb, a |-> 255] :
        rr \in UCharCast(Channel(col.r, factor)),
        gg \in UCharCast(Channel(col.g, factor)),
        bb \in UCharCast(Channel(col.b, factor)) })

\* ---------------------------------------------- Geometry Resolver
Discriminant(a, b, c) == FSub(FMul(b, b), FMul(FMul(FromInt(4), a), c))

\* Fault variant of SolveQuadratic: the two roots in the other order.
SolveQuadratic_RootsSwapped(a0, b0, c0) == Let3(a0, b0, c0, LAMBDA a, b, c :
    Let1(Discriminant(a, b, c), LAMBDA discriminant :
        IF FLt(discriminant, FromInt(0))
        THEN [t1 |-> INFINITY, t2 |-> INFINITY]
        ELSE [t1 |-> FDiv(FSub(FNeg(b), FSqrt(discriminant)), FMul(FromInt(2), a)),
              t2 |-> FDiv(FAdd(FNeg(b), FSqrt(discriminant)), FMul(FromInt(2), a))]))

\* The roots, given the coefficients (the part after the offset is taken).
SolveQuadratic(a0, b0, c0) == Let3(a0, b0, c0, LAMBDA a, b, c :
    Let1(Discriminant(a, b, c), LAMBDA discriminant :
        IF FLt(discriminant, FromInt(0))
        THEN [t1 |-> INFINITY, t2 |-> INFINITY]
        ELSE [t1 |-> FDiv(FAdd(FNeg(b), FSqrt(discriminant)), FMul(FromInt(2), a)),
              t2 |-> FDiv(FSub(FNeg(b), FSqrt(discriminant)), FMul(FromInt(2), a))]))

\* a, b and c of IntersectRaySphere
Coefficients(R, sp) ==
    Let2(sp.radius, Vector3Subtract(CAMERA_ORIGIN, sp.center), LAMBDA r, CO :
        [a |-> Vector3DotProduct(R.direction, R.direction),
         b |-> FMul(FromInt(2), Vector3DotProduct(CO, R.direction)),
         c |-> FSub(Vector3DotProduct(CO, CO), FMul(r, r))])

IntersectRaySphere(R, sp) ==
    Let1(Coefficients(R, sp), LAMBDA q : SolveQuadratic(q.a, q.b, q.c))

\* ----------------------------------------------- coordinate maps
CanvasToScreen(canvas_point) ==
    [x |-> (CANVAS_WIDTH \div 2) + canvas_point.x,
     y |-> (CANVAS_HEIGHT \div 2) - canvas_point.y]

CanvasToViewport(canvas_point) ==
    Vec(FMul(FromInt(canvas_point.x), FDiv(VIEWPORT_WIDTH, FromInt(CANVAS_WIDTH))),
        FMul(FromInt(canvas_point.y), FDiv(VIEWPORT_HEIGHT, FromInt(CANVAS_HEIGHT))),
        CAMERA_ORIGIN_DISTANCE)

\* ---------------------------------------------- Shading Evaluator
\* One light's addition to light_contrib (the loop body).
LightTerm(l, point, normal) ==
    IF l.type = "AMBIENT" THEN l.intensity
    ELSE Let1(IF l.type = "POINT" THEN Vector3Subtract(l.position, point)
              ELSE IF l.type = "DIRECTIONAL" THEN l.direction
              ELSE Vector3Zero, LAMBDA beam_dir :
             LET n_to_l == Vector3DotProduct(normal, beam_dir)
                 coefficient ==
                     FDiv(n_to_l, FMul(Vector3Length(normal), Vector3Length(beam_dir)))
             IN  FMul(l.intensity, coefficient))

RECURSIVE LightLoop(_, _, _, _, _)
LightLoop(lts, point, normal, i, contrib) ==
    Let1(contrib, LAMBDA light_contrib :
        IF i > Len(lts) THEN light_contrib
        ELSE LightLoop(lts, point, normal, i + 1,
                       FAdd(light_contrib, LightTerm(lts[i], point, normal))))

ComputeLighting(lts, p, sphere_center) ==
    Let2(p, Vector3Subtract(p, sphere_center), LAMBDA point, normal :
        LightLoop(lts, point, normal, 1, FromInt(0)))

\* ------------------------------------------------------ Ray Tracer
\* Fault variants of Accepts: without the lower bound of the range, and with
\* a tie replacing the closest so far.
Accepts_NoLowerBound(t, tmin, tmax, closest_t) ==
    FLe(t, tmax) /\ FLt(t, closest_t)
Accepts_TieReplaces(t, tmin, tmax, closest_t) ==
    FGe(t, tmin) /\ FLe(t, tmax) /\ FLe(t, closest_t)

\* The test that lets a t-value replace the closest one so far.
Accepts(t, tmin, tmax, closest_t) ==
    FGe(t, tmin) /\ FLe(t, tmax) /\ FLt(t, closest_t)

\* One iteration of the sphere loop; st = [closest_t, closest_sphere], the
\* sphere given by its index in objects[] (0 is NULL).
ScanStep(objs, r, tmin, tmax, i, st) ==
    Let1(IntersectRaySphere(r, objs[i]), LAMBDA collision :
        IF FNe(collision.t1, INFINITY) /\ FNe(collision.t2, INFINITY)
        THEN Let1(IF Accepts(collision.t1, tmin, tmax, st.closest_t)
                  THEN [closest_t |-> collision.t1, closest_sphere |-> i]
                  ELSE st, LAMBDA s1 :
                 IF Accepts(collision.t2, tmin, tmax, s1.closest_t)
                 THEN [closest_t |-> collision.t2, closest_sphere |-> i]
                 ELSE s1)
        ELSE st)

RECURSIVE ScanLoop(_, _, _, _, _, _)
ScanLoop(objs, r, tmin, tmax, i, st0) ==
    Let1(st0, LAMBDA st :
        IF i > Len(objs) THEN st
        ELSE ScanLoop(objs, r, tmin, tmax, i + 1, ScanStep(objs, r, tmin, tmax, i, st)))

\* closest_t and closest_sphere when the loop is over.
Closest(objs, r, tmin, tmax) ==
    ScanLoop(objs, r, tmin, tmax, 1, [closest_t |-> INFINITY, closest_sphere |-> 0])

\* The colour returned when closest_sphere is NULL.
MissColor == WHITE

\* The colour of a hit: the shading of sphere st.closest_sphere at closest_t.
Shade(objs, lts, r, st) ==
    Let1(objs[st.closest_sphere], LAMBDA sph :
        LET intersection_point ==
                Vector3Add(r.position, Vector3Scale(r.direction, st.closest_t))
            light_contrib == ComputeLighting(lts, intersection_point, sph.center)
        IN  ColorMultiply(sph.color, light_contrib))

\* Fault variant of TraceRay: the miss colour is dimmed by the ambient light.
TraceRay_MissShaded(objs, lts, r, tmin, tmax) ==
    Let1(Closest(objs, r, tmin, tmax), LAMBDA st :
        IF st.closest_sphere = 0 THEN ColorMultiply(MissColor, Tenths(2))
        ELSE Shade(objs, lts, r, st))

\* The colours TraceRay can return (one, unless a cast is undefined).
TraceRay(objs, lts, r, tmin, tmax) ==
    Let1(Closest(objs, r, tmin, tmax), LAMBDA st :
        IF st.closest_sphere = 0 THEN {MissColor} ELSE Shade(objs, lts, r, st))

\* --------------------------------------------------------- state
VARIABLES
    objects,    \* Sphere objects[] (a mutable global)
    lights,     \* Light lights[] (a mutable global)
    pc,         \* where main is: "main", "scan" (inside DrawScene), "drawn", "closed"
    x, y,       \* the loop counters of DrawScene
    img,        \* the pixel buffer: screen coordinate -> colour
    writes,     \* per screen coordinate, the SetPixel calls of the current DrawScene call
    last,       \* the last loop iteration: its SetPixel call and the locals of its TraceRay
    frames,     \* completed iterations of the main loop
    ray, tmin, tmax,   \* the arguments of a direct call of the two functions
    isect,      \* the result of a direct call of IntersectRaySphere
    trace       \* the result (and final locals) of a direct call of TraceRay

vars == << objects, lights, pc, x, y, img, writes, last, frames,
           ray, tmin, tmax, isect, trace >>

ScreenXs == 0 .. (CANVAS_WIDTH - 1)
ScreenYs == 0 .. (CANVAS_HEIGHT - 1)
ScreenCoords == ScreenXs \X ScreenYs

InBuffer(sx, sy) ==
    sx >= 0 /\ sx < CANVAS_WIDTH /\ sy >= 0 /\ sy < CANVAS_HEIGHT

\* SetPixel -> ImageDrawPixel: raylib draws nothing outside the image.
SetPixel(buf, sx, sy, c) ==
    IF InBuffer(sx, sy) THEN [buf EXCEPT ![<<sx, sy>>] = c] ELSE buf

NoIsect == [called |-> FALSE, sphere |-> 0, t1 |-> Zero, t2 |-> Zero]
NoTrace == [called |-> FALSE, closest_t |-> Zero, closest_sphere |-> 0, color |-> BLACK]
NoPixel == [called |-> FALSE, cx |-> 0, cy |-> 0, sx |-> 0, sy |-> 0,
            closest_t |-> Zero, closest_sphere |-> 0, color |-> BLACK]

\* The ray DrawScene builds for canvas position (cx, cy).
PixelRay(cx, cy) ==
    LET viewport_pos == CanvasToViewport([x |-> cx, y |-> cy])
    IN  MkRay(CAMERA_ORIGIN, Vector3Subtract(viewport_pos, CAMERA_ORIGIN))

\* main up to the loop: GenImageColor(CANVAS_WIDTH, CANVAS_HEIGHT, WHITE)
Init ==
    /\ objects = SceneObjects
    /\ lights = SceneLights
    /\ pc = "main"
    /\ x = 0
    /\ y = 0
    /\ img = [p \in ScreenCoords |-> WHITE]
    /\ writes = [p \in ScreenCoords |-> 0]
    /\ last = NoPixel
    /\ frames = 0
    /\ ray = MkRay(CAMERA_ORIGIN, VecI(0, 0, 1))
    /\ tmin = FromInt(1)
    /\ tmax = INFINITY
    /\ isect = NoIsect
    /\ trace = NoTrace

\* The main loop enters DrawScene(&img): the loop counters start.
EnterDrawScene ==
    /\ pc = "main"
    /\ frames < MaxFrames
    /\ pc' = "scan"
    /\ x' = 0 - (CANVAS_WIDTH \div 2)
    /\ y' = 0 - (CANVAS_HEIGHT \div 2)
    /\ writes' = [p \in ScreenCoords |-> 0]
    /\ last' = NoPixel
    /\ UNCHANGED << objects, lights, img, frames, ray, tmin, tmax, isect, trace >>

\* One iteration of the inner loop of DrawScene and the loop steps after it;
\* objsAfter is what the iteration leaves in objects[].
ScanIteration(objsAfter) ==
    /\ pc = "scan"
    /\ LET r == PixelRay(x, y)
           s == CanvasToScreen([x |-> x, y |-> y])
           st == Closest(objects, r, FromInt(1), INFINITY)
           lastY == y + 1 >= CANVAS_HEIGHT \div 2
           lastX == x + 1 >= CANVAS_WIDTH \div 2
       IN  /\ \E col \in TraceRay(objects, lights, r, FromInt(1), INFINITY) :
                 /\ img' = SetPixel(img, s.x, s.y, col)
                 /\ last' = [called |-> TRUE, cx |-> x, cy |-> y, sx |-> s.x, sy |-> s.y,
                             closest_t |-> st.closest_t,
                             closest_sphere |-> st.closest_sphere, color |-> col]
           /\ writes' = IF InBuffer(s.x, s.y)
                        THEN [writes EXCEPT ![<<s.x, s.y>>] = @ + 1]
                        ELSE writes
           /\ y' = IF lastY THEN 0 - (CANVAS_HEIGHT \div 2) ELSE y + 1
           /\ x' = IF lastY THEN x + 1 ELSE x
           /\ pc' = IF lastY /\ lastX THEN "drawn" ELSE "scan"
    /\ objects' = objsAfter
    /\ UNCHANGED << lights, frames, ray, tmin, tmax, isect, trace >>

\* Fault variant of DrawPixel: the shaded colour is stored into the sphere hit.
DrawPixel_StoresShade ==
    LET st == Closest(objects, PixelRay(x, y), FromInt(1), INFINITY)
    IN  ScanIteration(IF st.closest_sphere = 0 THEN objects
                      ELSE [objects EXCEPT ![st.closest_sphere].color = BLACK])

\* The iteration as written: objects[] is only read.
DrawPixel == ScanIteration(objects)

\* DrawScene has returned: UpdateTexture, the blit, and back to the loop test.
PresentFrame ==
    /\ pc = "drawn"
    /\ pc' = "main"
    /\ frames' = frames + 1
    /\ UNCHANGED << objects, lights, x, y, img, writes, last, ray, tmin, tmax, isect, trace >>

\* WindowShouldClose(): the loop ends, the image is unloaded.
CloseWindow ==
    /\ pc = "main"
    /\ pc' = "closed"
    /\ UNCHANGED << objects, lights, x, y, img, writes, last, frames,
                    ray, tmin, tmax, isect, trace >>

Next == EnterDrawScene \/ DrawPixel \/ PresentFrame \/ CloseWindow

Spec == Init /\ [][Next]_vars

\* ---------------------------------- the two functions, called directly
\* Scenes for the direct calls: the program's, and two of unit spheres on the
\* z axis (one with a repeated sphere and two touching spheres, one with three
\* separate spheres out of depth order).
TouchingScene ==
    << Sphere(VecI(0, 0, 5), FromInt(1), BLUE),
       Sphere(VecI(0, 0, 3), FromInt(1), RED),
       Sphere(VecI(0, 0, 3), FromInt(1), GREEN) >>
DepthScene ==
    << Sphere(VecI(0, 0, 9), FromInt(1), BLUE),
       Sphere(VecI(0, 0, 3), FromInt(1), RED),
       Sphere(VecI(0, 0, 6), FromInt(1), GREEN) >>
Scenes == { SceneObjects, TouchingScene, DepthScene }

RayOrigins == { CAMERA_ORIGIN, VecI(0, 1, 0) }
RayDirections ==
    { VecI(0, 0, 1), VecI(0, 0, 2), VecI(0, 0, -1), VecI(0, 0, 0),
      VecI(1, 0, 2), VecI(-1, 0, 2), VecI(0, -1, 2), VecI(0, -1, 1),
      VecI(0, 1, 2), VecI(1, 0, 4), VecI(0, -1, 4), VecI(-1, -1, 3) }
\* [tmin, tmax]: DrawScene's, and three that cut hits off at either end
Ranges ==
    { <<FromInt(1), INFINITY>>, <<FromInt(0), FromInt(3)>>,
      <<FromInt(4), FromInt(6)>>, <<FromInt(4), INFINITY>> }

InitFn ==
    /\ objects \in Scenes
    /\ lights = SceneLights
    /\ pc = "call"
    /\ x = 0
    /\ y = 0
    /\ img = [p \in ScreenCoords |-> WHITE]
    /\ writes = [p \in ScreenCoords |-> 0]
    /\ last = NoPixel
    /\ frames = 0
    /\ ray \in { MkRay(o, d) : o \in RayOrigins, d \in RayDirections }
    /\ \E rg \in Ranges : tmin = rg[1] /\ tmax = rg[2]
    /\ isect = NoIsect
    /\ trace = NoTrace

CallIntersectRaySphere ==
    /\ pc = "call"
    /\ \E i \in 1 .. Len(objects) :
          LET collision == IntersectRaySphere(ray, objects[i])
          IN  isect' = [called |-> TRUE, sphere |-> i,
                        t1 |-> collision.t1, t2 |-> collision.t2]
    /\ pc' = "returned"
    /\ UNCHANGED << objects, lights, x, y, img, writes, last, frames,
                    ray, tmin, tmax, trace >>

CallTraceRay ==
    /\ pc = "call"
    /\ LET st == Closest(objects, ray, tmin, tmax)
       IN  \E col \in TraceRay(objects, lights, ray, tmin, tmax) :
              trace' = [called |-> TRUE, closest_t |-> st.closest_t,
                        closest_sphere |-> st.closest_sphere, color |-> col]
    /\ pc' = "returned"
    /\ UNCHANGED << objects, lights, x, y, img, writes, last, frames,
                    ray, tmin, tmax, isect >>

NextFn == CallIntersectRaySphere \/ CallTraceRay

SpecFn == InitFn /\ [][NextFn]_vars

\* ================================================================ claims
\* The t-values a claim counts as candidates: not the sentinel, and in range.
Candidate(t, lo, hi) == FNe(t, INFINITY) /\ FGe(t, lo) /\ FLe(t, hi)

\* The pairs <<sphere index, t>> of all candidates of a ray over a scene.
Candidates(objs, r, lo, hi) ==
    UNION { Let1(IntersectRaySphere(r, objs[i]), LAMBDA c :
                { <<i, t>> : t \in { u \in {c.t1, c.t2} : Candidate(u, lo, hi) } })
            : i \in 1 .. Len(objs) }

IsMinOf(t, S) == \A q \in S : FLe(t, q[2])

\* The shading of sphere i of objs where the ray r is at parameter t.
ShadeAt(objs, lts, r, i, t) ==
    ColorMultiply(objs[i].color,
                  ComputeLighting(lts,
                                  Vector3Add(r.position, Vector3Scale(r.direction, t)),
                                  objs[i].center))

IsByte(n) == n \in 0 .. 255

\* The candidates of the direct TraceRay call, and of the last pixel's ray.
TraceCandidates == Candidates(objects, ray, tmin, tmax)
PixelCandidates == Candidates(objects, PixelRay(last.cx, last.cy), FromInt(1), INFINITY)

\* The lighting factor of the last pixel (a hit).
PixelLight ==
    LET r == PixelRay(last.cx, last.cy)
    IN  ComputeLighting(lights,
                        Vector3Add(r.position, Vector3Scale(r.direction, last.closest_t)),
                        objects[last.closest_sphere].center)

\* C1: when DrawScene returns, every screen coordinate of the buffer has
\* been written exactly once.
Cex_C1_FullCoverage ==
    pc = "drawn" => \A p \in ScreenCoords : writes[p] = 1

\* C2: when some sphere has a candidate t, TraceRay selects the least of all
\* candidates, held by the sphere it selects, and returns that sphere's base
\* colour shaded at that t.
Thm_C2_NearestHit ==
    (trace.called /\ TraceCandidates # {}) =>
        /\ <<trace.closest_sphere, trace.closest_t>> \in TraceCandidates
        /\ IsMinOf(trace.closest_t, TraceCandidates)
        /\ trace.color \in
               ShadeAt(objects, lights, ray, trace.closest_sphere, trace.closest_t)

\* C2 witness: a later sphere of the scene is selected because its candidate
\* is strictly nearer than an earlier sphere's.
Wit_C2_LaterSphereNearer ==
    /\ trace.called
    /\ \E q \in TraceCandidates :
          /\ q[1] < trace.closest_sphere
          /\ FLt(trace.closest_t, q[2])
    /\ trace.color \in
           ShadeAt(objects, lights, ray, trace.closest_sphere, trace.closest_t)

\* The solver of the specification: originOffset is the ray's own origin
\* minus the sphere's centre.
IntersectRaySphereRef(R, sp) ==
    Let2(sp.radius, Vector3Subtract(R.position, sp.center), LAMBDA r, originOffset :
        SolveQuadratic(Vector3DotProduct(R.direction, R.direction),
                       FMul(FromInt(2), Vector3DotProduct(originOffset, R.direction)),
                       FSub(Vector3DotProduct(originOffset, originOffset), FMul(r, r))))

\* C3: IntersectRaySphere returns what the solver with originOffset =
\* ray origin - sphere centre returns, for every ray.
Cex_C3_UsesRayOrigin ==
    isect.called =>
        [t1 |-> isect.t1, t2 |-> isect.t2] =
            IntersectRaySphereRef(ray, objects[isect.sphere])

\* C4: TraceRay returns the background colour (WHITE here), unshaded, exactly
\* when there is no candidate; otherwise the base colour of the selected
\* sphere times the lighting factor.
Thm_C4_BackgroundIffNoCandidate ==
    trace.called =>
        IF TraceCandidates = {}
        THEN trace.closest_sphere = 0 /\ trace.color = WHITE
        ELSE /\ trace.closest_sphere # 0
             /\ trace.color \in
                    ShadeAt(objects, lights, ray, trace.closest_sphere, trace.closest_t)

\* C4 witness: a ray that meets a sphere (finite roots) outside [tmin, tmax]
\* only, and gets the background colour.
Wit_C4_OutOfRangeIsMiss ==
    /\ trace.called
    /\ TraceCandidates = {}
    /\ trace.color = WHITE
    /\ \E i \in 1 .. Len(objects) :
          IsFinite(IntersectRaySphere(ray, objects[i]).t1)

\* C5: a pixel whose ray has no intersection is painted Black.
Cex_C5_MissIsBlack ==
    (last.called /\ PixelCandidates = {}) => last.color = BLACK

\* C6: every colour in the buffer and every colour DrawScene writes has r, g
\* and b in 0..255 and alpha 255, and no channel of a shaded colour leaves
\* [0, 255] before its cast, whatever the lighting factor.
Thm_C6_ChannelsInRange ==
    /\ \A p \in ScreenCoords :
          IsByte(img[p].r) /\ IsByte(img[p].g) /\ IsByte(img[p].b) /\ img[p].a = 255
    /\ last.called =>
          /\ IsByte(last.color.r) /\ IsByte(last.color.g) /\ IsByte(last.color.b)
          /\ last.color.a = 255
          /\ InBuffer(last.sx, last.sy) => img[<<last.sx, last.sy>>] = last.color
          /\ last.closest_sphere # 0 =>
                \A c \in { objects[last.closest_sphere].color.r,
                           objects[last.closest_sphere].color.g,
                           objects[last.closest_sphere].color.b } :
                   /\ FGe(Channel(c, PixelLight), FromInt(0))
                   /\ FLe(Channel(c, PixelLight), FromInt(255))

\* C6 witness: a pixel of a sphere with a negative lighting factor, written
\* with every channel clamped to 0.
Wit_C6_NegativeFactorClamped ==
    /\ last.called
    /\ last.closest_sphere # 0
    /\ InBuffer(last.sx, last.sy)
    /\ FLt(PixelLight, FromInt(0))
    /\ img[<<last.sx, last.sy>>] = BLACK

\* C7: finite t1 and t2 are ordered t1 >= t2, and a negative discriminant
\* gives the sentinel twice.
Thm_C7_RootOrder ==
    isect.called =>
        LET q == Coefficients(ray, objects[isect.sphere])
        IN  /\ (IsFinite(isect.t1) /\ IsFinite(isect.t2)) => FGe(isect.t1, isect.t2)
            /\ FLt(Discriminant(q.a, q.b, q.c), FromInt(0)) =>
                   (isect.t1 = INFINITY /\ isect.t2 = INFINITY)

\* C7 witness: two distinct finite roots.
Wit_C7_TwoRoots ==
    /\ isect.called
    /\ IsFinite(isect.t1) /\ IsFinite(isect.t2)
    /\ FGt(isect.t1, isect.t2)

\* C8: of the spheres that hold the least candidate, TraceRay selects the
\* first in scene order.
Thm_C8_FirstSphereWinsTies ==
    (trace.called /\ TraceCandidates # {}) =>
        \A q \in TraceCandidates :
            IsMinOf(q[2], TraceCandidates) => trace.closest_sphere <= q[1]

\* C8 witness: two spheres hold the least candidate and the earlier one is
\* selected.
Wit_C8_TieKeepsFirst ==
    /\ trace.called
    /\ \E q \in TraceCandidates :
          /\ IsMinOf(q[2], TraceCandidates)
          /\ q[1] > trace.closest_sphere
          /\ <<trace.closest_sphere, q[2]>> \in TraceCandidates

\* C9: the sphere array and the light array are what they were at start,
\* before, during and after every DrawScene call.
Thm_C9_SceneUnchanged ==
    objects = SceneObjects /\ lights = SceneLights

\* C9 witness: a second DrawScene call has returned.
Wit_C9_SecondFrameDrawn ==
    pc = "drawn" /\ frames >= 1 /\ objects = SceneObjects /\ lights = SceneLights

\* C10: every SetPixel call of DrawScene targets a coordinate of the buffer.
Cex_C10_TargetInBuffer ==
    last.called => InBuffer(last.sx, last.sy)

=============================================================================
